---- MODULE Spec2Model ----
(***************************************************************************)
(* A model of safe/common/minimum_needs.py: the MinimumNeeds class, its    *)
(* in-memory needs table, its accessors and its JSON persistence.          *)
(*                                                                         *)
(* Python objects are modelled with their identity where the code depends  *)
(* on it: a needs table (a dict) lives in `heap` under an object id, and   *)
(* an instance's attribute `minimum_needs` holds that id.  Everything      *)
(* nested in a table is kept by value.  An attribute that was never        *)
(* assigned is Unset.  A call ends either by returning a value or by       *)
(* raising; `ret` records how the last call ended.                         *)
(***************************************************************************)
EXTENDS Integers, Sequences, FiniteSets, TLC

VARIABLES
    minimum_needs,  \* instance -> Unset, or the id of the dict it holds
    heap,           \* object id -> contents of a live dict (key -> value)
    files,          \* path of a regular file -> its content (JSON tokens)
    appended,       \* number of records appended by set_need so far
    ret             \* the last call: operation, receiver, arguments, outcome

vars == <<minimum_needs, heap, files, appended, ret>>

----------------------------------------------------------------------------
(* Bounds of the exploration.                                              *)

\* set_need is called successfully at most this many times in a run.
MaxAppends == 2

----------------------------------------------------------------------------
(* Python values.                                                          *)

\* the attribute self.minimum_needs before anything assigned it; object ids
\* start at 1
Unset == 0

PyNone == [t |-> "NoneType"]
PyBool(b) == [t |-> "bool", b |-> b]
PyInt(n) == [t |-> "int", n |-> n]
PyStr(s) == [t |-> "str", s |-> s]
PyUnicode(s) == [t |-> "unicode", s |-> s]
PyList(items) == [t |-> "list", items |-> items]
\* a dict nested in another value, kept by value
PyDict(d) == [t |-> "dict", d |-> d]
\* a dict that lives in the heap, named by its object id
DictRef(id) == [t |-> "dict", id |-> id]

IsRef(v) == v.t = "dict" /\ "id" \in DOMAIN v
IsText(v) == v.t \in {"str", "unicode"}

EmptyDict == [k \in {} |-> PyNone]

\* the key -> value mapping of a dict value, wherever it lives
Items(h, v) == IF IsRef(v) THEN h[v.id] ELSE v.d

\* bool(v): what `if v:` and `not v` test
Truthy(h, v) ==
    CASE v.t = "NoneType" -> FALSE
      [] v.t = "bool" -> v.b
      [] v.t = "int" -> v.n # 0
      [] IsText(v) -> v.s # ""
      [] v.t = "list" -> v.items # <<>>
      [] v.t = "dict" -> DOMAIN Items(h, v) # {}

\* Python's ==, on values that hold no heap reference: str and unicode
\* of the same text are equal, bool is a number, containers compare
\* element by element.
RECURSIVE PyEq(_, _)
PyEq(a, b) ==
    CASE IsText(a) /\ IsText(b) -> a.s = b.s
      [] a.t \in {"int", "bool"} /\ b.t \in {"int", "bool"} ->
            (IF a.t = "int" THEN a.n ELSE IF a.b THEN 1 ELSE 0)
          = (IF b.t = "int" THEN b.n ELSE IF b.b THEN 1 ELSE 0)
      [] a.t = "NoneType" /\ b.t = "NoneType" -> TRUE
      [] a.t = "list" /\ b.t = "list" ->
            /\ Len(a.items) = Len(b.items)
            /\ \A i \in 1..Len(a.items) : PyEq(a.items[i], b.items[i])
      [] a.t = "dict" /\ b.t = "dict" ->
            /\ DOMAIN a.d = DOMAIN b.d
            /\ \A k \in DOMAIN a.d : PyEq(a.d[k], b.d[k])
      [] OTHER -> FALSE

\* how a call ends
Return(v) == [exc |-> "", val |-> v]
Raise(e) == [exc |-> e, val |-> PyNone]

IsStatus(r, n) == r.exc = "" /\ r.val.t = "int" /\ r.val.n = n

----------------------------------------------------------------------------
(* Translation.  safe.common.utilities.ugettext is a gettext lookup: a     *)
(* message with an entry in the active catalogue is replaced by its        *)
(* translation, any other text comes back as it is.  The catalogue here is *)
(* the Indonesian one for the five default resource names.                 *)

Catalogue ==
    "Rice" :> "Beras" @@ "Drinking Water" :> "Air Minum"
    @@ "Clean Water" :> "Air Bersih" @@ "Family Kits" :> "Perlengkapan Keluarga"
    @@ "Toilets" :> "Jamban"

tr(text) == IF text \in DOMAIN Catalogue THEN Catalogue[text] ELSE text

----------------------------------------------------------------------------
(* The default table.                                                      *)

ReadableSentence ==
    "A displaced person should be provided with "
    \o "{{ Default }} {{ Unit }}/{{ Units }}/"
    \o "{{ Unit abbreviation }} of {{ Resource name }}. "
    \o "Though no less than {{ Minimum allowed }} and no "
    \o "more than {{ Maximum allowed }}. This should be "
    \o "provided {{ Frequency }}."

\* one entry of the "resources" list of _defaults()
DefaultResource(default, minimum, maximum, frequency, name, description, unit, units, abbreviation) ==
    PyDict("Default" :> PyStr(default)
           @@ "Minimum allowed" :> PyStr(minimum)
           @@ "Maximum allowed" :> PyStr(maximum)
           @@ "Frequency" :> PyStr(frequency)
           @@ "Resource name" :> PyUnicode(name)
           @@ "Resource description" :> PyStr(description)
           @@ "Unit" :> PyStr(unit)
           @@ "Units" :> PyStr(units)
           @@ "Unit abbreviation" :> PyStr(abbreviation)
           @@ "Readable sentence" :> PyStr(ReadableSentence))

\* the contents of the dict _defaults() builds
_defaults ==
    LET rice == tr("Rice")
        drinking_water == tr("Drinking Water")
        water == tr("Clean Water")
        family_kits == tr("Family Kits")
        toilets == tr("Toilets")
    IN  "resources" :> PyList(<<
            DefaultResource("2.8", "0", "100", "weekly", rice,
                            "Basic food", "kilogram", "kilograms", "kg"),
            DefaultResource("17.5", "0", "100", "weekly", drinking_water,
                            "For drinking", "litre", "litres", "l"),
            DefaultResource("67", "10", "100", "weekly", water,
                            "For washing", "litre", "litres", "l"),
            DefaultResource("0.2", "0.1", "1", "weekly", family_kits,
                            "Hygiene kits", "", "", ""),
            DefaultResource("0.05", "0.02", "1", "single", toilets,
                            "", "", "", "") >>)
        @@ "provenance" :> PyStr("The minimum needs are based on Perka 7/2008.")
        @@ "profile" :> PyStr("BNPB_en")

----------------------------------------------------------------------------
(* JSON.  A document is the sequence of its tokens.                        *)

Punct(c) == [k |-> c]
StrTok(s) == [k |-> "string", s |-> s]
NumTok(n) == [k |-> "number", n |-> n]
LitTok(s) == [k |-> "literal", s |-> s]

\* the order in which json.dumps walks the keys of a dict
KeyOrder ==
    << "profile", "provenance", "resources",
       "Default", "Frequency", "Maximum allowed", "Minimum allowed",
       "Readable sentence", "Resource description", "Resource name",
       "Unit", "Unit abbreviation", "Units" >>

KeysOf(d) == SelectSeq(KeyOrder, LAMBDA k : k \in DOMAIN d)

RECURSIVE dumps_value(_)
RECURSIVE dumps_items(_)
RECURSIVE dumps_members(_, _)

\* json.dumps(v), for a value that holds no heap reference
dumps_value(v) ==
    CASE v.t = "NoneType" -> << LitTok("null") >>
      [] v.t = "bool" -> << LitTok(IF v.b THEN "true" ELSE "false") >>
      [] v.t = "int" -> << NumTok(v.n) >>
      [] IsText(v) -> << StrTok(v.s) >>
      [] v.t = "list" -> << Punct("[") >> \o dumps_items(v.items) \o << Punct("]") >>
      [] v.t = "dict" ->
            << Punct("{") >> \o dumps_members(v.d, KeysOf(v.d)) \o << Punct("}") >>

dumps_items(items) ==
    IF items = <<>> THEN <<>>
    ELSE dumps_value(Head(items))
         \o (IF Len(items) > 1 THEN << Punct(",") >> \o dumps_items(Tail(items))
             ELSE <<>>)

dumps_members(d, keys) ==
    IF keys = <<>> THEN <<>>
    ELSE << StrTok(Head(keys)), Punct(":") >> \o dumps_value(d[Head(keys)])
         \o (IF Len(keys) > 1 THEN << Punct(",") >> \o dumps_members(d, Tail(keys))
             ELSE <<>>)

\* json.dumps(self.minimum_needs) gone wrong: only the list of resources is
\* written
dumps_resources(h, id) ==
    IF "resources" \in DOMAIN h[id] THEN dumps_value(h[id]["resources"])
    ELSE dumps_value(PyDict(h[id]))

\* json.dumps(self.minimum_needs): the table is the dict with id `id`
dumps(h, id) == dumps_value(PyDict(h[id]))

Parsed(v, pos) == [ok |-> TRUE, val |-> v, pos |-> pos]
ParseError == [ok |-> FALSE, val |-> PyNone, pos |-> 0]

RECURSIVE parse_value(_, _)
RECURSIVE parse_elements(_, _, _)
RECURSIVE parse_members(_, _, _)

\* the JSON value that starts at token i
parse_value(toks, i) ==
    IF i > Len(toks) THEN ParseError
    ELSE LET tok == toks[i] IN
         CASE tok.k = "literal" ->
                CASE tok.s = "null" -> Parsed(PyNone, i + 1)
                  [] tok.s = "true" -> Parsed(PyBool(TRUE), i + 1)
                  [] tok.s = "false" -> Parsed(PyBool(FALSE), i + 1)
                  [] OTHER -> ParseError
           [] tok.k = "number" -> Parsed(PyInt(tok.n), i + 1)
           [] tok.k = "string" -> Parsed(PyUnicode(tok.s), i + 1)
           [] tok.k = "[" ->
                IF i + 1 <= Len(toks) /\ toks[i + 1].k = "]"
                THEN Parsed(PyList(<<>>), i + 2)
                ELSE parse_elements(toks, i + 1, <<>>)
           [] tok.k = "{" ->
                IF i + 1 <= Len(toks) /\ toks[i + 1].k = "}"
                THEN Parsed(PyDict(EmptyDict), i + 2)
                ELSE parse_members(toks, i + 1, EmptyDict)
           [] OTHER -> ParseError

\* the elements of an array from token i on, `acc` read so far
parse_elements(toks, i, acc) ==
    LET e == parse_value(toks, i) IN
    IF ~e.ok \/ e.pos > Len(toks) THEN ParseError
    ELSE CASE toks[e.pos].k = "," -> parse_elements(toks, e.pos + 1, Append(acc, e.val))
           [] toks[e.pos].k = "]" -> Parsed(PyList(Append(acc, e.val)), e.pos + 1)
           [] OTHER -> ParseError

\* the members of an object from token i on, `acc` read so far
parse_members(toks, i, acc) ==
    IF i + 1 > Len(toks) \/ toks[i].k # "string" \/ toks[i + 1].k # ":" THEN ParseError
    ELSE LET e == parse_value(toks, i + 2)
             d == [k \in DOMAIN acc \cup {toks[i].s} |->
                      IF k = toks[i].s THEN e.val ELSE acc[k]]
         IN  IF ~e.ok \/ e.pos > Len(toks) THEN ParseError
             ELSE CASE toks[e.pos].k = "," -> parse_members(toks, e.pos + 1, d)
                    [] toks[e.pos].k = "}" -> Parsed(PyDict(d), e.pos + 1)
                    [] OTHER -> ParseError

\* json.loads(text): the value, or ValueError
loads(toks) ==
    LET r == parse_value(toks, 1) IN
    IF r.ok /\ r.pos = Len(toks) + 1 THEN Return(r.val) ELSE Raise("ValueError")

----------------------------------------------------------------------------
(* The file system: os.path.exists, os.path.dirname, open.                 *)

\* "/data/needs.json" is Path(TRUE, <<"data", "needs.json">>), "needs.json"
\* is Path(FALSE, <<"needs.json">>), "/" is Path(TRUE, <<>>) and the empty
\* path "" is Path(FALSE, <<>>).
Path(abs, parts) == [abs |-> abs, parts |-> parts]

Root == Path(TRUE, <<>>)
DataDir == Path(TRUE, <<"data">>)

\* the directories that exist; no operation of the class makes one
Dirs == {Root, DataDir}

\* os.path.dirname gone wrong: the parent of a bare file name is taken to be
\* the directory the process runs in, which exists
dirname_cwd(filename) ==
    IF filename.parts = <<>> THEN filename
    ELSE IF ~filename.abs /\ Len(filename.parts) = 1 THEN Root
    ELSE Path(filename.abs, SubSeq(filename.parts, 1, Len(filename.parts) - 1))

\* os.path.dirname(filename): everything before the last component
dirname(filename) ==
    IF filename.parts = <<>> THEN filename
    ELSE Path(filename.abs, SubSeq(filename.parts, 1, Len(filename.parts) - 1))

\* os.path.exists(filename)
exists(fs, filename) == filename \in Dirs \/ filename \in DOMAIN fs

\* open(filename): a directory, or a path under a regular file, cannot be opened
CanOpen(fs, filename) == filename \notin Dirs /\ dirname(filename) \notin DOMAIN fs

\* fs with the regular file `filename` holding `content`
WithFile(fs, filename, content) ==
    [f \in DOMAIN fs \cup {filename} |-> IF f = filename THEN content ELSE fs[f]]

----------------------------------------------------------------------------
(* Subscription and iteration, as the accessors use them.                  *)

\* container[index], index a string
GetItem(h, container, index) ==
    CASE container.t = "dict" ->
            IF index \in DOMAIN Items(h, container)
            THEN Return(Items(h, container)[index])
            ELSE Raise("KeyError")
      [] container.t \in {"str", "unicode", "list"} -> Raise("TypeError")
      [] OTHER -> Raise("TypeError")

\* what `for x in container` yields: the keys of a dict, the items of a list
Iterate(h, container) ==
    IF container.t = "dict"
    THEN LET keys == KeysOf(Items(h, container))
         IN  [i \in 1..Len(keys) |-> PyStr(keys[i])]
    ELSE container.items

----------------------------------------------------------------------------
(* The operations of MinimumNeeds.  `mn` is the receiver's attribute       *)
(* self.minimum_needs (Unset or an object id), `h` the heap, `fs` the      *)
(* files.                                                                  *)

RECURSIVE get_need_loop(_, _, _)
\* the for loop of get_need over what is left to visit
get_need_loop(h, needs, resource) ==
    IF needs = <<>> THEN Return(PyNone)
    ELSE LET need == Head(needs)
             name == GetItem(h, need, "name")
         IN  IF name.exc # "" THEN name
             ELSE IF IsText(name.val) /\ name.val.s = resource THEN Return(need)
             ELSE get_need_loop(h, Tail(needs), resource)

get_need(mn, h, resource) ==
    IF mn = Unset THEN Raise("AttributeError")
    ELSE get_need_loop(h, Iterate(h, DictRef(mn)), resource)

OrderedDict(pairs) == [t |-> "OrderedDict", pairs |-> pairs]

\* od[key] = value gone wrong: a key already present keeps its first value
SetItem_keepfirst(pairs, key, value) ==
    IF \E i \in 1..Len(pairs) : pairs[i].key = key
    THEN pairs
    ELSE Append(pairs, [key |-> key, value |-> value])

\* od[key] = value on an OrderedDict: a key already present keeps its place
SetItem(pairs, key, value) ==
    IF \E i \in 1..Len(pairs) : pairs[i].key = key
    THEN [i \in 1..Len(pairs) |->
            IF pairs[i].key = key THEN [key |-> key, value |-> value] ELSE pairs[i]]
    ELSE Append(pairs, [key |-> key, value |-> value])

\* the display name get_minimum_needs gives a resource
DisplayName(resource_name, abbreviation) ==
    IF Truthy(EmptyDict, abbreviation)
    THEN tr(resource_name.s) \o " [" \o abbreviation.s \o "]"
    ELSE tr(resource_name.s)

RECURSIVE get_minimum_needs_loop(_, _, _)
\* the for loop of get_minimum_needs, `acc` the mapping built so far
get_minimum_needs_loop(h, resources, acc) ==
    IF resources = <<>> THEN Return(OrderedDict(acc))
    ELSE LET resource == Head(resources)
             abbreviation == GetItem(h, resource, "Unit abbreviation")
             resource_name == GetItem(h, resource, "Resource name")
             amount == GetItem(h, resource, "Default")
         IN  IF abbreviation.exc # "" THEN abbreviation
             ELSE IF resource_name.exc # "" THEN resource_name
             ELSE IF amount.exc # "" THEN amount
             ELSE get_minimum_needs_loop(h, Tail(resources),
                    SetItem(acc, DisplayName(resource_name.val, abbreviation.val),
                            amount.val))

get_minimum_needs(mn, h) ==
    IF mn = Unset THEN Raise("AttributeError")
    ELSE LET resources == GetItem(h, DictRef(mn), "resources")
         IN  IF resources.exc # "" THEN resources
             ELSE get_minimum_needs_loop(h, Iterate(h, resources.val), <<>>)

get_full_needs(mn) ==
    IF mn = Unset THEN Raise("AttributeError") ELSE Return(DictRef(mn))

\* the record set_need builds
NewNeed(resource, amount, units, frequency) ==
    PyDict("Resource name" :> PyStr(resource)
           @@ "Default" :> amount
           @@ "Unit abbreviation" :> PyStr(units)
           @@ "Frequency" :> PyStr(frequency))

\* list.append gone wrong: the item goes to the front, as list.insert(0, item)
ListAppend_front(list, item) == PyList(<< item >> \o list.items)

\* list.append
ListAppend(list, item) == PyList(Append(list.items, item))

\* the outcome of set_need and the heap it leaves
set_need(mn, h, resource, amount, units, frequency) ==
    IF mn = Unset THEN [result |-> Raise("AttributeError"), heap |-> h]
    ELSE LET resources == GetItem(h, DictRef(mn), "resources")
         IN  IF resources.exc # "" THEN [result |-> resources, heap |-> h]
             ELSE IF resources.val.t # "list"
             THEN [result |-> Raise("AttributeError"), heap |-> h]
             ELSE [result |-> Return(PyNone),
                   heap |-> [h EXCEPT ![mn] =
                      [@ EXCEPT !["resources"] =
                          ListAppend(resources.val,
                                     NewNeed(resource, amount, units, frequency))]]]

\* update_minimum_needs gone wrong: a value that fails the type check wipes
\* the table the instance held
update_minimum_needs_wipes(mn, new_needs) ==
    IF new_needs.t # "dict"
    THEN [result |-> Return(PyInt(-1)), minimum_needs |-> Unset]
    ELSE [result |-> Return(PyInt(0)), minimum_needs |-> new_needs.id]

\* update_minimum_needs gone wrong: a table already held is kept, the new one
\* is taken only by an instance that holds none
update_minimum_needs_keeps(mn, new_needs) ==
    IF new_needs.t # "dict"
    THEN [result |-> Return(PyInt(-1)), minimum_needs |-> mn]
    ELSE [result |-> Return(PyInt(0)),
          minimum_needs |-> IF mn = Unset THEN new_needs.id ELSE mn]

\* the outcome of update_minimum_needs and the attribute it leaves
update_minimum_needs(mn, new_needs) ==
    IF new_needs.t # "dict"
    THEN [result |-> Return(PyInt(-1)), minimum_needs |-> mn]
    ELSE [result |-> Return(PyInt(0)), minimum_needs |-> new_needs.id]

\* an id no live object has
NewId(h) == CHOOSE id \in 1..(Cardinality(DOMAIN h) + 1) : id \notin DOMAIN h

\* the heap with a new dict of the given contents
Allocate(h, d) == [id \in DOMAIN h \cup {NewId(h)} |-> IF id \in DOMAIN h THEN h[id] ELSE d]

\* read_from_file gone wrong: the check `if not minimum_needs` is missing
read_from_file_unchecked(mn, h, fs, filename) ==
    IF ~exists(fs, filename)
    THEN [result |-> Return(PyInt(-1)), minimum_needs |-> mn, heap |-> h]
    ELSE IF ~CanOpen(fs, filename)
    THEN [result |-> Raise("IOError"), minimum_needs |-> mn, heap |-> h]
    ELSE LET needs_json == fs[filename]
             parsed == loads(needs_json)
             value == IF parsed.exc # "" THEN PyNone ELSE parsed.val
             h1 == IF value.t = "dict" THEN Allocate(h, value.d) ELSE h
             new_needs == IF value.t = "dict" THEN DictRef(NewId(h)) ELSE value
             u == update_minimum_needs(mn, new_needs)
         IN  [result |-> u.result, minimum_needs |-> u.minimum_needs, heap |-> h1]

\* the outcome of read_from_file, the attribute and the heap it leaves
read_from_file(mn, h, fs, filename) ==
    IF ~exists(fs, filename)
    THEN [result |-> Return(PyInt(-1)), minimum_needs |-> mn, heap |-> h]
    ELSE IF ~CanOpen(fs, filename)
    THEN [result |-> Raise("IOError"), minimum_needs |-> mn, heap |-> h]
    ELSE LET needs_json == fs[filename]
             parsed == loads(needs_json)
             value == IF parsed.exc # "" THEN PyNone ELSE parsed.val
             \* the object json.loads made, when it made a dict
             h1 == IF value.t = "dict" THEN Allocate(h, value.d) ELSE h
             new_needs == IF value.t = "dict" THEN DictRef(NewId(h)) ELSE value
         IN  IF ~Truthy(h1, new_needs)
             THEN [result |-> Return(PyInt(-1)), minimum_needs |-> mn, heap |-> h]
             ELSE LET u == update_minimum_needs(mn, new_needs)
                  IN  [result |-> u.result, minimum_needs |-> u.minimum_needs,
                       heap |-> h1]

\* the outcome of write_to_file and the files it leaves
write_to_file(mn, h, fs, filename) ==
    IF ~exists(fs, dirname(filename))
    THEN [result |-> Return(PyInt(-1)), files |-> fs]
    ELSE IF ~CanOpen(fs, filename)
    THEN [result |-> Raise("IOError"), files |-> fs]
    ELSE \* open(filename, 'w') has made or emptied the file
         IF mn = Unset
         THEN [result |-> Raise("AttributeError"), files |-> WithFile(fs, filename, <<>>)]
         ELSE [result |-> Return(PyNone), files |-> WithFile(fs, filename, dumps(h, mn))]

----------------------------------------------------------------------------
(* The callers' inputs.                                                    *)

NeedsFile == Path(TRUE, <<"data", "needs.json">>)
MissingDirFile == Path(TRUE, <<"missing", "needs.json">>)
BareFile == Path(FALSE, <<"needs.json">>)

\* files that exist from the start, none of them a needs table
InitialFiles ==
    Path(TRUE, <<"data", "notjson.txt">>) :> << LitTok("not"), LitTok("json") >>
    @@ Path(TRUE, <<"data", "null.json">>) :> << LitTok("null") >>
    @@ Path(TRUE, <<"data", "zero.json">>) :> << NumTok(0) >>
    @@ Path(TRUE, <<"data", "emptystring.json">>) :> << StrTok("") >>
    @@ Path(TRUE, <<"data", "emptyarray.json">>) :> << Punct("["), Punct("]") >>
    @@ Path(TRUE, <<"data", "emptyobject.json">>) :> << Punct("{"), Punct("}") >>
    @@ Path(TRUE, <<"data", "array.json">>) :> << Punct("["), NumTok(1), Punct("]") >>
    @@ Path(TRUE, <<"data", "string.json">>) :> << StrTok("abc") >>

NoFiles == [f \in {} |-> <<>>]

\* a file that holds a small table: {"provenance": "file", "resources": []}
TableFile == Path(TRUE, <<"data", "table.json">>)
TableFiles ==
    TableFile :> << Punct("{"), StrTok("provenance"), Punct(":"), StrTok("file"),
                    Punct(","), StrTok("resources"), Punct(":"),
                    Punct("["), Punct("]"), Punct("}") >>

ReadPaths == DOMAIN InitialFiles \cup {NeedsFile, MissingDirFile, BareFile}
WritePaths == {NeedsFile, MissingDirFile, BareFile}

\* values that are not a dict
NonRecordValues == {PyNone, PyInt(7), PyStr("resources"), PyList(<< PyInt(1) >>)}

\* a record with no "resources" field, and one with an empty list of them
NoResourcesRecord == "provenance" :> PyStr("none") @@ "profile" :> PyStr("test")
EmptyResourcesRecord == "resources" :> PyList(<<>>) @@ NoResourcesRecord

\* the dicts a caller builds to hand over
CallerRecords == {_defaults, EmptyDict, NoResourcesRecord, EmptyResourcesRecord}

\* set_need called without its frequency argument
NoArgument == "<no argument>"

\* the arguments of the set_need calls: resource, amount, units, frequency
SetNeedInputs ==
    { << "Blankets", PyInt(2), "pieces", NoArgument >>,
      << "Beras", PyStr("5"), "kg", "daily" >> }

ResourceNames == {"Blankets", "Beras"}

----------------------------------------------------------------------------
(* The state machine: one action per method call.                          *)

Instances == DOMAIN minimum_needs

Call(op, self, args, result) ==
    [op |-> op, self |-> self, args |-> args, result |-> result]

\* the heap once the dicts no instance holds are dropped: a caller keeps no
\* reference of its own
Collect(h, mn) == [id \in {mn[i] : i \in DOMAIN mn} \cap DOMAIN h |-> h[id]]

InitWith(instances, fs) ==
    /\ minimum_needs = [i \in instances |-> Unset]
    /\ heap = [id \in {} |-> EmptyDict]
    /\ files = fs
    /\ appended = 0
    /\ ret = Call("", "", <<>>, Return(PyNone))

Init == InitWith({"a"}, InitialFiles)

GetNeed(self, resource) ==
    /\ ret' = Call("get_need", self, << resource >>,
                   get_need(minimum_needs[self], heap, resource))
    /\ UNCHANGED << minimum_needs, heap, files, appended >>

GetMinimumNeeds(self) ==
    /\ ret' = Call("get_minimum_needs", self, <<>>,
                   get_minimum_needs(minimum_needs[self], heap))
    /\ UNCHANGED << minimum_needs, heap, files, appended >>

GetFullNeeds(self) ==
    /\ ret' = Call("get_full_needs", self, <<>>, get_full_needs(minimum_needs[self]))
    /\ UNCHANGED << minimum_needs, heap, files, appended >>

SetNeed(self, resource, amount, units, frequency) ==
    LET r == set_need(minimum_needs[self], heap, resource, amount, units,
                      IF frequency = NoArgument THEN "weekly" ELSE frequency)
    IN  /\ appended < MaxAppends
        /\ heap' = r.heap
        /\ appended' = IF r.result.exc = "" THEN appended + 1 ELSE appended
        /\ ret' = Call("set_need", self, << resource, amount, units, frequency >>,
                       r.result)
        /\ UNCHANGED << minimum_needs, files >>

\* update_minimum_needs with a value that is no dict, or with a dict some
\* instance holds already (got from get_full_needs).  The call is recorded
\* with its argument and, for a dict, what the dict held when it was passed.
UpdateMinimumNeeds(self, new_needs) ==
    LET r == update_minimum_needs(minimum_needs[self], new_needs)
    IN  /\ minimum_needs' = [minimum_needs EXCEPT ![self] = r.minimum_needs]
        /\ heap' = Collect(heap, minimum_needs')
        /\ ret' = Call("update_minimum_needs", self,
                       << new_needs,
                          IF new_needs.t = "dict" THEN heap[new_needs.id] ELSE EmptyDict >>,
                       r.result)
        /\ UNCHANGED << files, appended >>

\* update_minimum_needs with a dict the caller has just built
UpdateWithNewRecord(self, d) ==
    LET new_needs == DictRef(NewId(heap))
        r == update_minimum_needs(minimum_needs[self], new_needs)
    IN  /\ minimum_needs' = [minimum_needs EXCEPT ![self] = r.minimum_needs]
        /\ heap' = Collect(Allocate(heap, d), minimum_needs')
        /\ ret' = Call("update_minimum_needs", self, << new_needs, d >>, r.result)
        /\ UNCHANGED << files, appended >>

ReadFromFile(self, filename) ==
    LET r == read_from_file(minimum_needs[self], heap, files, filename)
    IN  /\ minimum_needs' = [minimum_needs EXCEPT ![self] = r.minimum_needs]
        /\ heap' = Collect(r.heap, minimum_needs')
        /\ ret' = Call("read_from_file", self, << filename >>, r.result)
        /\ UNCHANGED << files, appended >>

WriteToFile(self, filename) ==
    LET r == write_to_file(minimum_needs[self], heap, files, filename)
    IN  /\ files' = r.files
        /\ ret' = Call("write_to_file", self, << filename >>, r.result)
        /\ UNCHANGED << minimum_needs, heap, appended >>

Next ==
    \/ \E self \in Instances, resource \in ResourceNames : GetNeed(self, resource)
    \/ \E self \in Instances : GetMinimumNeeds(self)
    \/ \E self \in Instances : GetFullNeeds(self)
    \/ \E self \in Instances, a \in SetNeedInputs :
            SetNeed(self, a[1], a[2], a[3], a[4])
    \/ \E self \in Instances,
          v \in NonRecordValues \cup {DictRef(id) : id \in DOMAIN heap} :
            UpdateMinimumNeeds(self, v)
    \/ \E self \in Instances, d \in CallerRecords : UpdateWithNewRecord(self, d)
    \/ \E self \in Instances, filename \in ReadPaths : ReadFromFile(self, filename)
    \/ \E self \in Instances, filename \in WritePaths : WriteToFile(self, filename)

Spec == Init /\ [][Next]_vars

\* Two instances and one file, which exists only once an instance wrote it.
InitShared == InitWith({"a", "b"}, NoFiles)

NextShared ==
    \/ \E self \in Instances : GetFullNeeds(self)
    \/ \E self \in Instances : SetNeed(self, "Blankets", PyInt(2), "pieces", NoArgument)
    \/ \E self \in Instances, id \in DOMAIN heap : UpdateMinimumNeeds(self, DictRef(id))
    \/ \E self \in Instances : UpdateWithNewRecord(self, _defaults)
    \/ \E self \in Instances : ReadFromFile(self, NeedsFile)
    \/ \E self \in Instances : WriteToFile(self, NeedsFile)

SpecShared == InitShared /\ [][NextShared]_vars

\* Two instances that are given records by their caller, the same one at
\* times, and that load a table from a file.
InitAliasing == InitWith({"a", "b"}, TableFiles)

NextAliasing ==
    \/ \E self \in Instances, resource \in ResourceNames : GetNeed(self, resource)
    \/ \E self \in Instances : GetFullNeeds(self)
    \/ \E self \in Instances, a \in SetNeedInputs :
            SetNeed(self, a[1], a[2], a[3], a[4])
    \/ \E self \in Instances, id \in DOMAIN heap : UpdateMinimumNeeds(self, DictRef(id))
    \/ \E self \in Instances : UpdateWithNewRecord(self, EmptyResourcesRecord)
    \/ \E self \in Instances : ReadFromFile(self, TableFile)

SpecAliasing == InitAliasing /\ [][NextAliasing]_vars

----------------------------------------------------------------------------
(* Properties.  A step of the machine is one call, which ret' describes;   *)
(* unprimed variables are the state the call found.                        *)

\* the receiver of the call ret describes holds a table
IsSet(mn, self) == mn[self] # Unset

\* the table the instance holds has a "resources" list
HasResources(mn, h, self) ==
    /\ IsSet(mn, self)
    /\ "resources" \in DOMAIN h[mn[self]]
    /\ h[mn[self]]["resources"].t = "list"

ResourcesOf(mn, h, self) == h[mn[self]]["resources"].items

\* C1: update_minimum_needs with a value that is not a record (None, a number,
\* a string, a list) returns -1, and the instance holds exactly what it held
\* before the call: the same object with the same contents, or still nothing,
\* whatever calls came before.
C1_NonRecordRejected ==
    [][ (ret'.op = "update_minimum_needs" /\ ret'.args[1].t # "dict")
        => /\ IsStatus(ret'.result, -1)
           /\ minimum_needs' = minimum_needs
           /\ heap' = heap ]_vars

\* C1 happens: a list is rejected by an instance that holds a table with a
\* record appended to it.
C1_Witness ==
    /\ ret.op = "update_minimum_needs"
    /\ ret.args[1].t = "list"
    /\ IsStatus(ret.result, -1)
    /\ HasResources(minimum_needs, heap, ret.self)
    /\ appended > 0

\* C2: update_minimum_needs with a record v (the empty record and a record
\* without "resources" included) returns 0, a get_full_needs() right after it
\* returns v itself, and v holds what the caller put in it: nothing of the
\* table held before is merged in.
C2_RecordReplacesTable ==
    [][ (ret'.op = "update_minimum_needs" /\ ret'.args[1].t = "dict")
        => /\ IsStatus(ret'.result, 0)
           /\ get_full_needs(minimum_needs'[ret'.self]).exc = ""
           /\ get_full_needs(minimum_needs'[ret'.self]).val = ret'.args[1]
           /\ heap'[ret'.args[1].id] = ret'.args[2] ]_vars

\* C2 happens: after a record was appended to an earlier table, the instance
\* is given the empty record and holds just that.
C2_Witness ==
    /\ ret.op = "update_minimum_needs"
    /\ IsStatus(ret.result, 0)
    /\ appended > 0
    /\ heap[minimum_needs[ret.self]] = EmptyDict

\* C3: on a table with a resources list, get_need(name) returns the first
\* record, in the order of the list, whose "Resource name" is name, and None
\* when there is none; it does not raise.
C3_GetNeedFirstMatch ==
    (ret.op = "get_need" /\ HasResources(minimum_needs, heap, ret.self))
    => LET resources == ResourcesOf(minimum_needs, heap, ret.self)
           Named(i) == resources[i].d["Resource name"].s = ret.args[1]
           first == IF \E i \in 1..Len(resources) : Named(i)
                    THEN CHOOSE i \in 1..Len(resources) :
                            Named(i) /\ \A j \in 1..(i - 1) : ~Named(j)
                    ELSE 0
       IN  /\ ret.result.exc = ""
           /\ IF first = 0 THEN ret.result.val.t = "NoneType"
              ELSE ret.result.val.t = "dict" /\ ret.result.val = resources[first]

\* the file holds no needs table: it is missing, or it is one of the initial
\* files ("not json", null, 0, "", [], {}, [1], "abc"), untouched
HoldsNoTable(fs, filename) ==
    \/ filename \notin DOMAIN fs /\ filename \notin Dirs
    \/ filename \in DOMAIN fs /\ filename \in DOMAIN InitialFiles
       /\ fs[filename] = InitialFiles[filename]

\* C4: read_from_file returns -1 and leaves the table as it was when the path
\* does not exist, when the content is not JSON, when it parses to a falsy
\* value (null, 0, "", [], {}) and when it parses to a value that is no record
\* (a non-empty array, a string).
C4_ReadFailureKeepsTable ==
    [][ (ret'.op = "read_from_file" /\ HoldsNoTable(files, ret'.args[1]))
        => /\ IsStatus(ret'.result, -1)
           /\ minimum_needs' = minimum_needs
           /\ heap' = heap
           /\ files' = files ]_vars

\* C4 happens: an instance that holds a table reads the file that holds {}.
C4_Witness ==
    /\ ret.op = "read_from_file"
    /\ ret.args[1] = Path(TRUE, <<"data", "emptyobject.json">>)
    /\ IsStatus(ret.result, -1)
    /\ HasResources(minimum_needs, heap, ret.self)

\* C5: an instance that holds the table of _defaults() writes it to a file in
\* an existing directory; an instance that holds nothing yet then reads the
\* file: the read returns 0 and the reader holds a table of its own equal to
\* the original, with the five resources in their order and every field,
\* provenance and profile the same.
C5_DefaultsRoundTrip ==
    [][ (/\ ret'.op = "read_from_file"
         /\ ~IsSet(minimum_needs, ret'.self)
         /\ ret'.args[1] \in DOMAIN files
         /\ \E w \in Instances :
               /\ IsSet(minimum_needs, w)
               /\ heap[minimum_needs[w]] = _defaults
               /\ files[ret'.args[1]] = dumps(heap, minimum_needs[w]))
        => /\ IsStatus(ret'.result, 0)
           /\ IsSet(minimum_needs', ret'.self)
           /\ \A w \in Instances \ {ret'.self} :
                 minimum_needs'[w] # minimum_needs'[ret'.self]
           /\ LET table == heap'[minimum_needs'[ret'.self]] IN
              /\ PyEq(PyDict(table), PyDict(_defaults))
              /\ Len(table["resources"].items) = 5
              /\ \A i \in 1..5 :
                    PyEq(table["resources"].items[i], _defaults["resources"].items[i])
              /\ PyEq(table["provenance"], _defaults["provenance"])
              /\ PyEq(table["profile"], _defaults["profile"]) ]_vars

\* C5 happens: a holds the default table and has written it, b has read it
\* into a table of its own.
C5_Witness ==
    /\ ret.op = "read_from_file"
    /\ ret.self = "b"
    /\ IsStatus(ret.result, 0)
    /\ IsSet(minimum_needs, "a") /\ IsSet(minimum_needs, "b")
    /\ minimum_needs["a"] # minimum_needs["b"]
    /\ heap[minimum_needs["a"]] = _defaults
    /\ NeedsFile \in DOMAIN files
    /\ files[NeedsFile] = dumps(heap, minimum_needs["a"])
    /\ PyEq(PyDict(heap[minimum_needs["b"]]), PyDict(_defaults))

\* C6: on a table with a resources list, set_need(resource, amount, units)
\* without a frequency appends exactly one record, {Resource name, Default,
\* Unit abbreviation, Frequency = "weekly"}, at the end: the list grows by one,
\* the records before it, provenance and profile stay as they were, also when
\* the name is already in the list.
C6_SetNeedAppendsOne ==
    [][ (/\ ret'.op = "set_need"
         /\ ret'.args[4] = NoArgument
         /\ HasResources(minimum_needs, heap, ret'.self))
        => LET id == minimum_needs[ret'.self]
               before == heap[id]["resources"].items
               after == heap'[id]["resources"].items
           IN  /\ ret'.result.exc = ""
               /\ minimum_needs' = minimum_needs
               /\ DOMAIN heap' = DOMAIN heap
               /\ DOMAIN heap'[id] = DOMAIN heap[id]
               /\ \A k \in DOMAIN heap[id] \ {"resources"} : heap'[id][k] = heap[id][k]
               /\ Len(after) = Len(before) + 1
               /\ \A i \in 1..Len(before) : after[i] = before[i]
               /\ after[Len(after)].t = "dict"
               /\ after[Len(after)].d =
                    ("Resource name" :> PyStr(ret'.args[1])
                     @@ "Default" :> ret'.args[2]
                     @@ "Unit abbreviation" :> PyStr(ret'.args[3])
                     @@ "Frequency" :> PyStr("weekly")) ]_vars

\* C6 happens: "Blankets" is appended to a table whose last record is
\* "Blankets" already.
C6_Witness ==
    /\ ret.op = "set_need"
    /\ ret.args[4] = NoArgument
    /\ ret.result.exc = ""
    /\ HasResources(minimum_needs, heap, ret.self)
    /\ LET resources == ResourcesOf(minimum_needs, heap, ret.self)
           n == Len(resources)
       IN  /\ n >= 2
           /\ resources[n].d["Resource name"] = PyStr("Blankets")
           /\ resources[n - 1].d["Resource name"] = PyStr("Blankets")

\* C7: write_to_file(p) where the parent of p does not exist ("/missing" for
\* "/missing/needs.json", the empty path for the bare name "needs.json")
\* returns -1, makes no file, changes no file and leaves the table as it was.
C7_WriteWithoutParentFails ==
    [][ (ret'.op = "write_to_file" /\ ret'.args[1] \in {MissingDirFile, BareFile})
        => /\ IsStatus(ret'.result, -1)
           /\ files' = files
           /\ minimum_needs' = minimum_needs
           /\ heap' = heap ]_vars

\* C7 happens: an instance that holds a table writes to the bare file name.
C7_Witness ==
    /\ ret.op = "write_to_file"
    /\ ret.args[1] = BareFile
    /\ IsStatus(ret.result, -1)
    /\ IsSet(minimum_needs, ret.self)
    /\ BareFile \notin DOMAIN files

\* the key C8 gives a resource record
C8_Key(r) ==
    IF r.d["Unit abbreviation"].s # ""
    THEN tr(r.d["Resource name"].s) \o " [" \o r.d["Unit abbreviation"].s \o "]"
    ELSE tr(r.d["Resource name"].s)

\* the mapping C8 describes: one entry per key, placed where the key first
\* comes up in the list, holding the Default of the last record with that key
C8_Expected(resources) ==
    LET n == Len(resources)
        firsts == {i \in 1..n : \A j \in 1..(i - 1) : C8_Key(resources[j]) # C8_Key(resources[i])}
        Last(i) == CHOOSE j \in i..n :
                      /\ C8_Key(resources[j]) = C8_Key(resources[i])
                      /\ \A l \in (j + 1)..n : C8_Key(resources[l]) # C8_Key(resources[i])
        Nth(m) == CHOOSE i \in firsts : Cardinality({j \in firsts : j < i}) = m - 1
    IN  [m \in 1..Cardinality(firsts) |->
            [key |-> C8_Key(resources[Nth(m)]),
             value |-> resources[Last(Nth(m))].d["Default"]]]

\* C8: on a table with a resources list, get_minimum_needs() returns an
\* ordered mapping built in the order of the list, from the key
\* "<translated name> [<abbreviation>]", or the translated name alone when
\* the abbreviation is empty, to the record's Default; of two records with
\* the same key the later one's Default is kept.  On the default table it has
\* five entries, the first from "<translated Rice> [kg]" to "2.8".
C8_MinimumNeedsMapping ==
    (ret.op = "get_minimum_needs" /\ HasResources(minimum_needs, heap, ret.self))
    => /\ ret.result.exc = ""
       /\ ret.result.val.t = "OrderedDict"
       /\ ret.result.val.pairs = C8_Expected(ResourcesOf(minimum_needs, heap, ret.self))
       /\ heap[minimum_needs[ret.self]] = _defaults
          => /\ Len(ret.result.val.pairs) = 5
             /\ ret.result.val.pairs[1] =
                    [key |-> tr("Rice") \o " [kg]", value |-> PyStr("2.8")]
             /\ \A i \in 1..5 :
                    ret.result.val.pairs[i].value = _defaults["resources"].items[i].d["Default"]

\* C8 happens: the default table got a record whose key is that of its first
\* resource, and the mapping holds the new amount under the first key.
C8_Witness ==
    /\ ret.op = "get_minimum_needs"
    /\ ret.result.exc = ""
    /\ HasResources(minimum_needs, heap, ret.self)
    /\ Len(ret.result.val.pairs) = 5
    /\ Len(ResourcesOf(minimum_needs, heap, ret.self)) = 6
    /\ ret.result.val.pairs[1] = [key |-> tr("Rice") \o " [kg]", value |-> PyStr("5")]

\* C9: update_minimum_needs, read_from_file and write_to_file end by
\* returning, never by raising, in every state an instance can be in; and
\* write_to_file never leaves its target emptied while it reports no status.
C9_FallibleOperationsReturn ==
    ret.op \in {"update_minimum_needs", "read_from_file", "write_to_file"}
    => /\ ret.result.exc = ""
       /\ ~(/\ ret.op = "write_to_file"
            /\ ret.args[1] \in DOMAIN files
            /\ files[ret.args[1]] = <<>>)

\* C10: a set_need on one instance never changes the table another instance
\* holds, also when both were given the same record.
C10_SetNeedLeavesOthersAlone ==
    [][ ret'.op = "set_need"
        => \A other \in Instances \ {ret'.self} :
              /\ minimum_needs'[other] = minimum_needs[other]
              /\ IsSet(minimum_needs, other)
                 => heap'[minimum_needs[other]] = heap[minimum_needs[other]] ]_vars

====
